---- MODULE Spec2Model ----
(***************************************************************************)
(* Model of frontend/src/components/blocks/common/factory.tsx:            *)
(* loadPackage (the package-import id remapping), createBlock / editBlock *)
(* (dialog driven block creation) and the id given to constant blocks.    *)
(***************************************************************************)
EXTENDS Integers, Sequences, FiniteSets, TLC

VARIABLES
    heap,       \* the object heap: heap[r] is the value of the object at reference r
    jsonModel,  \* the document loadPackage is given: references of its editor and design
    calls,      \* one record per completed loadPackage call: what it drew and returned
    task,       \* the createBlock / editBlock call in progress
    node,       \* the node editBlock works on
    prev        \* the constant block created before the current createBlock call

vars == <<heap, jsonModel, calls, task, node, prev>>

----------------------------------------------------------------------------
(* Bounds of the model *)

\* A document holds at most MaxIds ids: one for each block, two for each wire
\* and one for each entry of the models maps of layers 0 and 1.
MaxIds == 4

\* The same for a document loadPackage is run on twice.
MaxTwiceIds == 3

\* The same for the documents the collection lookup of createBlock returns.
MaxCollectionIds == 1

\* Block counts passed to createBlock have at most MaxDigits + 1 digits.
MaxDigits == 5

\* Length of the random part Toolkit.UID() contributes to a constant block's id.
MaxUidLen == 1

----------------------------------------------------------------------------
(* JavaScript values *)

\* The value of a missing property.
Undefined == "<undefined>"

\* The objects Object.prototype and Object (objects, not strings).
ObjectPrototype == "<Object.prototype>"

ObjectFunction == "<function Object>"

\* Property names every object literal inherits from Object.prototype; of
\* these the model holds the accessor __proto__ and the data property
\* constructor (toString, valueOf, hasOwnProperty, ... behave like constructor).
InheritedNames == {"__proto__", "constructor"}

\* The value an object literal inherits under name k.
Inherited(k) == IF k = "__proto__" THEN ObjectPrototype ELSE ObjectFunction

\* ToPropertyKey: the string a value becomes when it is used as a property name.
ToPropertyKey(v) ==
    IF v = ObjectPrototype THEN "[object Object]"
    ELSE IF v = ObjectFunction THEN "function Object() { [native code] }"
    ELSE v

\* if (v): every value used here is truthy except undefined.
Truthy(v) == v # Undefined

\* newIdMap = {}: an object literal with no own property.
EmptyObject == [k \in {} |-> Undefined]

\* obj[k] = v on an object literal: the inherited setter __proto__ ignores a
\* string, every other name becomes an own property.
ObjSet(obj, k, v) ==
    IF k = "__proto__" THEN obj
    ELSE [x \in (DOMAIN obj) \cup {k} |-> IF x = k THEN v ELSE obj[x]]

\* obj[k] on an object literal: own property, else inherited, else undefined.
ObjGet(obj, k) ==
    IF k \in DOMAIN obj THEN obj[k]
    ELSE IF k \in InheritedNames THEN Inherited(k)
    ELSE Undefined

----------------------------------------------------------------------------
(* The models map of an editor layer: its entries in property order *)

Keys(models) == {models[i].key : i \in 1..Len(models)}

KeySeq(models) == [i \in 1..Len(models) |-> models[i].key]

IndexOf(models, k) == CHOOSE i \in 1..Len(models) : models[i].key = k

\* models[k].id = v
SetModelId(models, k, v) ==
    [i \in 1..Len(models) |->
        IF models[i].key = k THEN [models[i] EXCEPT !.id = v] ELSE models[i]]

\* models[k] = the entry currently under key from (the same object)
PutModel(models, k, from) ==
    LET e == [key |-> k, id |-> models[IndexOf(models, from)].id]
    IN  IF k \in Keys(models)
        THEN [i \in 1..Len(models) |-> IF models[i].key = k THEN e ELSE models[i]]
        ELSE Append(models, e)

\* A rewrite that adds the new key and forgets to delete the old one.
DeleteModel_forgotten(models, k) == models

\* delete models[k]
DeleteModel(models, k) ==
    SelectSeq(models, LAMBDA e : e.key # k)

----------------------------------------------------------------------------
(* loadPackage *)

\* Ids a document may use, and the ids generateNewId may return. A stored
\* document holds ids that earlier calls generated, so the two sets overlap.
InputIds == {"a", "u1", "__proto__", "constructor"}

GeneratedIds == {"u1", "u2"}

\* No copy: the "clone" is the caller's object itself.
cloneDeep_sameObject(h, r) == [heap |-> h, ref |-> r]

\* cloneDeep(value): a new object holding a deep copy, at a new reference.
cloneDeep(h, r) == [heap |-> Append(h, h[r]), ref |-> Len(h) + 1]

\* generateNewId called once, before the loop: every block gets the first value.
RECURSIVE BlocksForEach_oneId(_, _, _, _)
BlocksForEach_oneId(blocks, rnd, newIdMap, i) ==
    IF i > Len(blocks) THEN [blocks |-> blocks, newIdMap |-> newIdMap]
    ELSE BlocksForEach_oneId([blocks EXCEPT ![i].id = rnd[1]], rnd,
                             ObjSet(newIdMap, blocks[i].id, rnd[1]), i + 1)

\* The map is filled but block.id is never overwritten.
RECURSIVE BlocksForEach_keepIds(_, _, _, _)
BlocksForEach_keepIds(blocks, rnd, newIdMap, i) ==
    IF i > Len(blocks) THEN [blocks |-> blocks, newIdMap |-> newIdMap]
    ELSE BlocksForEach_keepIds(blocks, rnd,
                               ObjSet(newIdMap, blocks[i].id, rnd[i]), i + 1)

\* blocks.forEach(block => { newId = generateNewId(); newIdMap[block.id] = newId;
\* block.id = newId }), rnd[i] being the i-th value generateNewId returns.
RECURSIVE BlocksForEach(_, _, _, _)
BlocksForEach(blocks, rnd, newIdMap, i) ==
    IF i > Len(blocks) THEN [blocks |-> blocks, newIdMap |-> newIdMap]
    ELSE BlocksForEach([blocks EXCEPT ![i].id = rnd[i]], rnd,
                       ObjSet(newIdMap, blocks[i].id, rnd[i]), i + 1)

\* The body of Object.keys(models).forEach in updateModelIdsInLayer, for one key.
UpdateModelId(models, newIdMap, oldId) ==
    LET newId == ObjGet(newIdMap, oldId)
    IN  IF Truthy(newId)
        THEN DeleteModel(
                 PutModel(SetModelId(models, oldId, newId), ToPropertyKey(newId), oldId),
                 oldId)
        ELSE models

\* Object.keys(models).forEach(...): keys is the snapshot taken before the loop.
RECURSIVE KeysForEach(_, _, _, _)
KeysForEach(models, newIdMap, keys, i) ==
    IF i > Len(keys) THEN models
    ELSE KeysForEach(UpdateModelId(models, newIdMap, keys[i]), newIdMap, keys, i + 1)

\* updateModelIdsInLayer(layerIndex) on the editor copy; layers[layerIndex].models
\* of a missing layer raises a TypeError.
updateModelIdsInLayer(editor, newIdMap, layerIndex) ==
    IF layerIndex + 1 > Len(editor.layers)
    THEN [threw |-> TRUE, editor |-> editor]
    ELSE LET models == editor.layers[layerIndex + 1]
         IN  [threw |-> FALSE,
              editor |-> [editor EXCEPT !.layers[layerIndex + 1] =
                             KeysForEach(models, newIdMap, KeySeq(models), 1)]]

\* One endpoint of a wire: replaced when the map has a truthy value for it.
UpdateEndpoint(newIdMap, block) ==
    LET newId == ObjGet(newIdMap, block)
    IN  IF Truthy(newId) THEN newId ELSE block

\* wires.forEach(wire => ...)
WiresForEach(wires, newIdMap) ==
    [i \in 1..Len(wires) |->
        [source |-> UpdateEndpoint(newIdMap, wires[i].source),
         target |-> UpdateEndpoint(newIdMap, wires[i].target)]]

\* loadPackage(jsonModel) with rnd the values generateNewId returns: the heap it
\* leaves, whether it raised, and the references handed to PackageBlockModel.
loadPackage(h, doc, rnd) ==
    LET cd == cloneDeep(h, doc.design)
        ce == cloneDeep(cd.heap, doc.editor)
        tempDesign == cd.ref
        tempEditor == ce.ref
        b  == BlocksForEach(ce.heap[tempDesign].blocks, rnd, EmptyObject, 1)
        h1 == [ce.heap EXCEPT ![tempDesign].blocks = b.blocks]
        l0 == updateModelIdsInLayer(h1[tempEditor], b.newIdMap, 0)
        h2 == [h1 EXCEPT ![tempEditor] = l0.editor]
        l1 == updateModelIdsInLayer(h2[tempEditor], b.newIdMap, 1)
        h3 == [h2 EXCEPT ![tempEditor] = l1.editor]
        h4 == [h3 EXCEPT ![tempDesign].wires = WiresForEach(@, b.newIdMap)]
    IN  IF l0.threw THEN [heap |-> h1, threw |-> TRUE, model |-> 0, design |-> 0]
        ELSE IF l1.threw THEN [heap |-> h2, threw |-> TRUE, model |-> 0, design |-> 0]
        ELSE [heap |-> h4, threw |-> FALSE, model |-> tempEditor, design |-> tempDesign]

----------------------------------------------------------------------------
(* Documents *)

\* Sequences over S of length at most n.
SeqUpTo(S, n) == UNION {[1..k -> S] : k \in 0..n}

Distinct(s) == \A i, j \in 1..Len(s) : i # j => s[i] # s[j]

\* A layer's models map as stored: every entry's id field repeats its key.
ModelsOver(S, n) ==
    {[i \in 1..Len(ks) |-> [key |-> ks[i], id |-> ks[i]]] :
        ks \in {q \in SeqUpTo(S, n) : Distinct(q)}}

Wires == [source : InputIds, target : InputIds]

\* The designs of at most n ids.
Designs(n) ==
    UNION {{[blocks |-> [i \in 1..Len(bs) |-> [id |-> bs[i]]], wires |-> ws] :
            ws \in SeqUpTo(Wires, (n - Len(bs)) \div 2)} :
        bs \in SeqUpTo(InputIds, n)}

\* Number of ids a design holds.
Size(d) == Len(d.blocks) + 2 * Len(d.wires)

\* The documents of at most n ids with editor layers 0 and 1, as <<editor, design>>.
WellFormed(n) ==
    UNION {UNION {
        {<<[layers |-> <<m0, m1>>], d>> :
            m1 \in ModelsOver(InputIds, n - Size(d) - Len(m0))} :
        m0 \in ModelsOver(InputIds, n - Size(d))} :
        d \in Designs(n)}

\* The documents of at most n ids whose editor has fewer than two layers.
Malformed(n) ==
    UNION {{<<[layers |-> <<>>], d>>} \cup
           {<<[layers |-> <<m0>>], d>> : m0 \in ModelsOver(InputIds, n - Size(d))} :
        d \in Designs(n)}

Documents(n) == WellFormed(n) \cup Malformed(n)

\* Block ids of the design at reference r.
BlockIds(h, r) == [i \in 1..Len(h[r].blocks) |-> h[r].blocks[i].id]

----------------------------------------------------------------------------
(* Strings compared by code unit: the id of a constant block *)

\* The UTF-16 code units of the characters ids are built from.
CodeUnit(c) ==
    CASE c = "-" -> 45 [] c = "0" -> 48 [] c = "1" -> 49 [] c = "2" -> 50
      [] c = "3" -> 51 [] c = "4" -> 52 [] c = "5" -> 53 [] c = "6" -> 54
      [] c = "7" -> 55 [] c = "8" -> 56 [] c = "9" -> 57 [] c = "f" -> 102

Digit(d) ==
    CASE d = 0 -> "0" [] d = 1 -> "1" [] d = 2 -> "2" [] d = 3 -> "3" [] d = 4 -> "4"
      [] d = 5 -> "5" [] d = 6 -> "6" [] d = 7 -> "7" [] d = 8 -> "8" [] d = 9 -> "9"

\* Number.prototype.toString() of a non-negative integer, as a sequence of characters.
RECURSIVE toString(_)
toString(n) == IF n < 10 THEN <<Digit(n)>> ELSE Append(toString(n \div 10), Digit(n % 10))

\* String.prototype.padStart(targetLength, padString) with a one character pad.
RECURSIVE padStart(_, _, _)
padStart(str, targetLength, pad) ==
    IF Len(str) >= targetLength THEN str ELSE padStart(<<pad>> \o str, targetLength, pad)

\* The targetLength createBlock pads the block count to.
PadLength == 4

\* blockCount.toString().padStart(4, '0') + '-' + Toolkit.UID()
ConstantId(blockCount, uid) ==
    padStart(toString(blockCount), PadLength, "0") \o <<"-">> \o uid

\* a < b on strings: the order of the first differing code unit, a proper prefix first.
RECURSIVE StringLess(_, _)
StringLess(a, b) ==
    IF b = <<>> THEN FALSE
    ELSE IF a = <<>> THEN TRUE
    ELSE IF Head(a) = Head(b) THEN StringLess(Tail(a), Tail(b))
    ELSE CodeUnit(Head(a)) < CodeUnit(Head(b))

RECURSIVE Pow10(_)
Pow10(k) == IF k = 0 THEN 1 ELSE 10 * Pow10(k - 1)

\* Block counts: 0 and the counts around each change of the number of digits.
BlockCounts == {0} \cup UNION {{Pow10(k) - 1, Pow10(k)} : k \in 1..MaxDigits}

\* The values Toolkit.UID() may return.
UIDs == UNION {[1..n -> {"0", "f"}] : n \in 1..MaxUidLen}

----------------------------------------------------------------------------
(* Blocks, nodes and calls of the factory *)

NoBlock == [type |-> "undefined", id |-> <<>>, count |-> 0, model |-> 0, design |-> 0]

NoNode == [type |-> "none", data |-> "none"]

Idle == [op |-> "none", pc |-> "idle", name |-> "", blockCount |-> 0,
         settled |-> "pending", value |-> NoBlock, logged |-> FALSE,
         awaited |-> "none", data |-> FALSE, ctor |-> FALSE, layers |-> 0,
         before |-> "none", setData |-> FALSE]

\* Names createBlock is called with: the four basic blocks and a collection block.
BlockNames == {"basic.constant", "basic.code", "basic.input", "basic.output", "collection"}

\* Node classes editBlock is called with; "package" stands for every other class.
NodeTypes == {"constant", "code", "input", "output", "package"}

\* Data a dialog resolves with; a node holds some data before it is edited.
DialogData == {"data1", "data2"}

\* A statement sequence ends normally or by raising.
Normal(block, h) == [threw |-> FALSE, block |-> block, heap |-> h, completed |-> TRUE]

Raised(h) == [threw |-> TRUE, block |-> NoBlock, heap |-> h, completed |-> FALSE]

\* No catch: an exception of the body leaves the function.
TryCatch_uncaught(body) ==
    [threw |-> body.threw, logged |-> FALSE, block |-> body.block, heap |-> body.heap,
     completed |-> body.completed]

\* try { body } catch (error) { console.log(error) }: what follows the statement
\* sees no exception; block keeps the value it had when the body raised.
TryCatch(body) ==
    IF body.threw
    THEN [threw |-> FALSE, logged |-> TRUE, block |-> NoBlock, heap |-> body.heap,
          completed |-> FALSE]
    ELSE [threw |-> FALSE, logged |-> FALSE, block |-> body.block, heap |-> body.heap,
          completed |-> body.completed]

\* The switch of createBlock once the awaited promise has settled: aw is
\* "rejected" or "resolved", data what it resolved with, ctor whether the block
\* model's constructor returns, uid and rnd the random values drawn.
createBlockBody(h, name, blockCount, aw, data, doc, ctor, uid, rnd) ==
    IF aw = "rejected" THEN Raised(h)
    ELSE IF name = "basic.constant"
    THEN IF data = Undefined \/ ~ctor THEN Raised(h)
         ELSE Normal([NoBlock EXCEPT !.type = "constant", !.count = blockCount,
                                     !.id = ConstantId(blockCount, uid)], h)
    ELSE IF name \in {"basic.code", "basic.input", "basic.output"}
    THEN IF ~ctor THEN Raised(h)
         ELSE Normal([NoBlock EXCEPT !.type = name], h)
    ELSE IF data = Undefined THEN Raised(h)
    ELSE LET r == loadPackage(h, doc, rnd)
         IN  IF r.threw \/ ~ctor THEN Raised(r.heap)
             ELSE Normal([NoBlock EXCEPT !.type = "package", !.model = r.model,
                                         !.design = r.design], r.heap)

\* createBlock from the settling of its await to its return.
createBlock(h, name, blockCount, aw, data, doc, ctor, uid, rnd) ==
    TryCatch(createBlockBody(h, name, blockCount, aw, data, doc, ctor, uid, rnd))

\* The branches of editBlock once the awaited dialog has settled.
editBlockBody(h, aw) ==
    IF aw = "rejected" THEN Raised(h) ELSE Normal(NoBlock, h)

editBlock(h, aw) == TryCatch(editBlockBody(h, aw))

\* Whether editBlock opens a dialog for a node of this class.
HasDialog(type) == type \in {"constant", "code", "input", "output"}

----------------------------------------------------------------------------
(* Specification of the factory: createBlock and editBlock calls, one at a time *)

\* The async function's promise: rejected when an exception leaves its body.
Settle(r) == IF r.threw THEN "rejected" ELSE "fulfilled"

CallCreateBlock ==
    /\ task.pc = "idle"
    /\ \E name \in BlockNames, blockCount \in BlockCounts :
         task' = [Idle EXCEPT !.op = "createBlock", !.pc = "await", !.name = name,
                              !.blockCount = blockCount]
    /\ UNCHANGED <<heap, jsonModel, calls, node, prev>>

\* The call ends; the task also records what its collaborators did: how the
\* awaited promise settled, whether it resolved with a value, whether the block
\* model's constructor returned, and how many layers the looked-up editor had.
Finish(r, aw, data, ctor, layers) ==
    /\ task' = [task EXCEPT !.pc = "done", !.settled = Settle(r), !.value = r.block,
                            !.logged = r.logged, !.awaited = aw,
                            !.data = (data # Undefined), !.ctor = ctor,
                            !.layers = layers, !.setData = r.completed /\ task.op = "editBlock"]
    /\ heap' = r.heap

\* The dialog of a basic block resolves (with data, or with nothing) or is cancelled.
DialogSettles ==
    /\ task.op = "createBlock" /\ task.pc = "await" /\ task.name # "collection"
    /\ \E aw \in {"resolved", "rejected"}, data \in DialogData \cup {Undefined},
          ctor \in BOOLEAN, uid \in UIDs :
         Finish(createBlock(heap, task.name, task.blockCount, aw, data, jsonModel,
                            ctor, uid, <<>>), aw, data, ctor, 0)
    /\ UNCHANGED <<jsonModel, calls, node, prev>>

\* getCollectionBlock resolves with a document (or nothing), or fails.
LookupSettles ==
    /\ task.op = "createBlock" /\ task.pc = "await" /\ task.name = "collection"
    /\ \/ \E d \in Documents(MaxCollectionIds), ctor \in BOOLEAN :
            \E rnd \in [1..Len(d[2].blocks) -> GeneratedIds] :
              /\ jsonModel' = [editor |-> 1, design |-> 2]
              /\ Finish(createBlock(d, task.name, task.blockCount, "resolved", "document",
                                    jsonModel', ctor, <<>>, rnd),
                        "resolved", "document", ctor, Len(d[1].layers))
       \/ \E aw \in {"resolved", "rejected"} :
              /\ jsonModel' = jsonModel
              /\ Finish(createBlock(heap, task.name, task.blockCount, aw, Undefined,
                                    jsonModel, TRUE, <<>>, <<>>), aw, Undefined, TRUE, 0)
    /\ UNCHANGED <<calls, node, prev>>

CallEditBlock ==
    /\ task.pc = "idle"
    /\ \E type \in NodeTypes, data \in DialogData :
         /\ node' = [type |-> type, data |-> data]
         /\ task' = [Idle EXCEPT !.op = "editBlock", !.before = data,
                                 !.pc = IF HasDialog(type) THEN "await" ELSE "done",
                                 !.settled = IF HasDialog(type) THEN "pending"
                                             ELSE "fulfilled"]
    /\ UNCHANGED <<heap, jsonModel, calls, prev>>

\* The dialog of editBlock resolves, and node.setData(data) runs, or is cancelled.
EditSettles ==
    /\ task.op = "editBlock" /\ task.pc = "await"
    /\ \E aw \in {"resolved", "rejected"}, data \in DialogData :
         LET r == editBlock(heap, aw)
         IN  /\ Finish(r, aw, data, TRUE, 0)
             /\ node' = IF r.completed THEN [node EXCEPT !.data = data] ELSE node
    /\ UNCHANGED <<jsonModel, calls, prev>>

\* The caller takes the result; the last constant block made is remembered.
Return ==
    /\ task.pc = "done"
    /\ task' = Idle
    /\ prev' = IF task.value.type = "constant" THEN task.value ELSE prev
    /\ heap' = <<>>
    /\ node' = NoNode
    /\ jsonModel' = [editor |-> 0, design |-> 0]
    /\ UNCHANGED calls

InitFactory ==
    /\ heap = <<>>
    /\ jsonModel = [editor |-> 0, design |-> 0]
    /\ calls = <<>>
    /\ task = Idle
    /\ node = NoNode
    /\ prev = NoBlock

NextFactory ==
    \/ CallCreateBlock
    \/ DialogSettles
    \/ LookupSettles
    \/ CallEditBlock
    \/ EditSettles
    \/ Return

SpecFactory == InitFactory /\ [][NextFactory]_vars

----------------------------------------------------------------------------
(* Specification of the importer: a caller holding one document calls
   loadPackage on it, and then once more on the same document. *)

Call(rnd) ==
    LET r == loadPackage(heap, jsonModel, rnd)
    IN  /\ heap' = r.heap
        /\ calls' = Append(calls, [rnd |-> rnd, threw |-> r.threw,
                                   model |-> r.model, design |-> r.design])
        /\ UNCHANGED <<jsonModel, task, node, prev>>

\* The values generateNewId may return in one call, one for each block.
Draws == [1..Len(heap[jsonModel.design].blocks) -> GeneratedIds]

LoadPackage ==
    /\ calls = <<>>
    /\ \E rnd \in Draws : Call(rnd)

LoadPackageAgain ==
    /\ Len(calls) = 1
    /\ \E rnd \in Draws : Call(rnd)

InitDoc(docs) ==
    /\ heap \in docs
    /\ jsonModel = [editor |-> 1, design |-> 2]
    /\ calls = <<>>
    /\ task = Idle
    /\ node = NoNode
    /\ prev = NoBlock

Init == InitDoc(Documents(MaxIds))

Next == LoadPackage

Spec == Init /\ [][Next]_vars

InitTwice == InitDoc(Documents(MaxTwiceIds))

NextTwice == LoadPackage \/ LoadPackageAgain

SpecTwice == InitTwice /\ [][NextTwice]_vars

----------------------------------------------------------------------------
(* The document before and after a call of loadPackage *)

InDesign == heap[jsonModel.design]

InEditor == heap[jsonModel.editor]

\* The completed calls that returned a package block.
Returned == {k \in 1..Len(calls) : ~calls[k].threw}

OutDesign(k) == heap[calls[k].design]

OutEditor(k) == heap[calls[k].model]

Ids(blocks) == {blocks[i].id : i \in 1..Len(blocks)}

Endpoints(wires) == {wires[i].source : i \in 1..Len(wires)} \cup
                    {wires[i].target : i \in 1..Len(wires)}

\* Every id the input document holds.
InputIdsUsed ==
    Ids(InDesign.blocks) \cup Endpoints(InDesign.wires) \cup
    UNION {Keys(InEditor.layers[l]) : l \in 1..Len(InEditor.layers)}

\* The values generateNewId returned in call k are pairwise distinct.
DistinctDraws(k) == Distinct(calls[k].rnd)

\* ... and none of them is an id of the input document.
FreshDraws(k) ==
    /\ DistinctDraws(k)
    /\ \A i \in 1..Len(calls[k].rnd) : calls[k].rnd[i] \notin InputIdsUsed

\* The id map call k built from the blocks of the input.
NewIdMap(k) == BlocksForEach(InDesign.blocks, calls[k].rnd, EmptyObject, 1).newIdMap

\* The keys of a models map that the map gives a value for, and where they move.
Moved(models, newIdMap) == {k \in Keys(models) : Truthy(ObjGet(newIdMap, k))}

Target(newIdMap, k) == ToPropertyKey(ObjGet(newIdMap, k))

\* No entry is moved onto a key of the input map or onto another moved entry.
CleanMove(models, newIdMap) ==
    /\ \A k \in Moved(models, newIdMap) : Target(newIdMap, k) \notin Keys(models)
    /\ \A k1, k2 \in Moved(models, newIdMap) :
         k1 # k2 => Target(newIdMap, k1) # Target(newIdMap, k2)

----------------------------------------------------------------------------
(* C1 *)

\* C1: a step of the importer leaves the caller's document as it was: the
\* editor (every layer's models map, keys and id fields) and the design (block
\* ids, wire endpoints) at the references the caller holds keep their values.
C1_InputUnchanged ==
    [][/\ heap'[jsonModel.editor] = heap[jsonModel.editor]
       /\ heap'[jsonModel.design] = heap[jsonModel.design]]_vars

\* A call returned a document whose block ids differ from the input's.
C1_Witness ==
    \E k \in Returned :
        /\ InDesign.blocks # <<>>
        /\ OutDesign(k).blocks # InDesign.blocks
        /\ \E l \in 1..2 : OutEditor(k).layers[l] # InEditor.layers[l]

----------------------------------------------------------------------------
(* C2 *)

LayerCount(editor) == Len(editor.layers[1]) + Len(editor.layers[2])

----------------------------------------------------------------------------
(* C3 *)

\* C3 as stated: the block ids of a returned document are pairwise distinct.
C3_OutputIdsDistinct ==
    \A k \in Returned : Distinct(BlockIds(heap, calls[k].design))

\* C3 amended: the block ids of a returned document are pairwise distinct
\* whenever the values generateNewId returned in the call are, whatever the
\* input's block ids were.
C3_OutputIdsDistinctIfDrawsDistinct ==
    \A k \in Returned : DistinctDraws(k) => Distinct(BlockIds(heap, calls[k].design))

\* A call on a document with two blocks of one id drew distinct ids.
C3_Witness ==
    \E k \in Returned :
        /\ Len(InDesign.blocks) = 2
        /\ InDesign.blocks[1].id = InDesign.blocks[2].id
        /\ DistinctDraws(k)

----------------------------------------------------------------------------
(* C4 *)

\* An endpoint whose input value was the id of an input block is the id of an
\* output block, and with unique input block ids it is the output id of the
\* block at the position of the block it named.
EndpointFollowsBlock(k, old, new) ==
    old \in Ids(InDesign.blocks) =>
        /\ new \in Ids(OutDesign(k).blocks)
        /\ Distinct(BlockIds(heap, jsonModel.design)) =>
             \A i \in 1..Len(InDesign.blocks) :
                 InDesign.blocks[i].id = old => OutDesign(k).blocks[i].id = new

\* C4: every endpoint (source.block, target.block) of every output wire whose
\* input value was the id of an input block is the new id of that block.
C4_WiresFollowBlocks ==
    \A k \in Returned : \A i \in 1..Len(InDesign.wires) :
        /\ EndpointFollowsBlock(k, InDesign.wires[i].source, OutDesign(k).wires[i].source)
        /\ EndpointFollowsBlock(k, InDesign.wires[i].target, OutDesign(k).wires[i].target)

----------------------------------------------------------------------------
(* C5 *)

\* C5, for documents with unique block ids and calls whose generated ids are
\* fresh: for each of layers 0 and 1 and each input block whose id is a key of
\* the layer, the output layer has exactly one entry under the block's new id,
\* none under the old id, and that entry's id field is its key.
C5_LayerEntriesFollowBlocks ==
    \A k \in Returned :
        (FreshDraws(k) /\ Distinct(BlockIds(heap, jsonModel.design))) =>
            \A l \in 1..2 : \A i \in 1..Len(InDesign.blocks) :
                LET old == InDesign.blocks[i].id
                    new == OutDesign(k).blocks[i].id
                    out == OutEditor(k).layers[l]
                IN  old \in Keys(InEditor.layers[l]) =>
                        /\ Cardinality({j \in 1..Len(out) : out[j].key = new}) = 1
                        /\ old \notin Keys(out)
                        /\ \A j \in 1..Len(out) : out[j].key = new => out[j].id = new

----------------------------------------------------------------------------
(* C6 *)

\* C6, for calls whose generated ids are fresh: a wire endpoint that is not the
\* id of an input block keeps its value, and a layer entry whose key is not the
\* id of an input block stays under its key with its id field.
C6_OtherIdsPassThrough ==
    \A k \in Returned :
        FreshDraws(k) =>
            /\ \A i \in 1..Len(InDesign.wires) :
                 /\ InDesign.wires[i].source \notin Ids(InDesign.blocks)
                      => OutDesign(k).wires[i].source = InDesign.wires[i].source
                 /\ InDesign.wires[i].target \notin Ids(InDesign.blocks)
                      => OutDesign(k).wires[i].target = InDesign.wires[i].target
            /\ \A l \in 1..2 : \A j \in 1..Len(InEditor.layers[l]) :
                 InEditor.layers[l][j].key \notin Ids(InDesign.blocks)
                      => \E j2 \in 1..Len(OutEditor(k).layers[l]) :
                             OutEditor(k).layers[l][j2] = InEditor.layers[l][j]

----------------------------------------------------------------------------
(* C7 *)

\* The id occurrences of a design, in a fixed order: block ids, wire sources,
\* wire targets.
Occurrences(d) ==
    [i \in 1..Len(d.blocks) |-> d.blocks[i].id]
        \o [i \in 1..Len(d.wires) |-> d.wires[i].source]
        \o [i \in 1..Len(d.wires) |-> d.wires[i].target]

\* C7, for documents with unique block ids and calls whose generated ids are
\* fresh: two id occurrences of the design are equal in the output exactly when
\* they were equal in the input, and an occurrence is a key of layer 0 or 1 in
\* the output exactly when it was one in the input.
C7_Isomorphic ==
    \A k \in Returned :
        (FreshDraws(k) /\ Distinct(BlockIds(heap, jsonModel.design))) =>
            LET in  == Occurrences(InDesign)
                out == Occurrences(OutDesign(k))
            IN  /\ \A p, q \in 1..Len(in) : (out[p] = out[q]) <=> (in[p] = in[q])
                /\ \A l \in 1..2 : \A p \in 1..Len(in) :
                     (ToPropertyKey(out[p]) \in Keys(OutEditor(k).layers[l]))
                         <=> (in[p] \in Keys(InEditor.layers[l]))

----------------------------------------------------------------------------
(* C8 *)

\* The ids generated in the two calls are pairwise distinct, within and across
\* the calls, and none is an id of the input document.
FreshAcross ==
    /\ FreshDraws(1) /\ FreshDraws(2)
    /\ \A i \in 1..Len(calls[1].rnd), j \in 1..Len(calls[2].rnd) :
         calls[1].rnd[i] # calls[2].rnd[j]

SameCounts ==
    /\ Len(OutDesign(1).blocks) = Len(OutDesign(2).blocks)
    /\ Len(OutDesign(1).wires) = Len(OutDesign(2).wires)
    /\ LayerCount(OutEditor(1)) = LayerCount(OutEditor(2))

NoSharedBlockId == Ids(OutDesign(1).blocks) \cap Ids(OutDesign(2).blocks) = {}

TwoReturned == Returned = {1, 2} /\ InDesign.blocks # <<>>

\* C8 as stated: two calls on one document with at least one block return
\* documents with the same counts and no block id in common.
C8_TwoRunsDiffer == TwoReturned => (SameCounts /\ NoSharedBlockId)

\* C8 amended: two calls on one document with at least one block return
\* documents with the same counts and no block id in common provided the ids
\* generated in the two calls are fresh.
C8_TwoRunsDifferIfFresh == (TwoReturned /\ FreshAcross) => (SameCounts /\ NoSharedBlockId)

\* Two calls on a document with a block and a layer entry for it generated
\* fresh ids.
C8_Witness ==
    /\ TwoReturned /\ FreshAcross
    /\ \E l \in 1..2 : Moved(InEditor.layers[l], NewIdMap(1)) # {}

----------------------------------------------------------------------------
(* C9 *)

\* Whether everything createBlock relies on succeeded: the awaited promise
\* resolved, with a value where the branch reads one, loadPackage found
\* layers 0 and 1, and the block model's constructor returned.
AllSucceeded ==
    /\ task.awaited = "resolved"
    /\ task.ctor
    /\ task.name \in {"basic.constant", "collection"} => task.data
    /\ task.name = "collection" => task.layers >= 2

\* C9: a finished createBlock or editBlock call has fulfilled its promise,
\* never rejected it; createBlock returns a block exactly when everything it
\* relies on succeeded, and otherwise has logged the error; editBlock whose
\* dialog was cancelled has not called setData and the node's data is as before.
C9_NeverRaises ==
    task.pc = "done" =>
        /\ task.settled = "fulfilled"
        /\ task.op = "createBlock" =>
             /\ (task.value # NoBlock) <=> AllSucceeded
             /\ task.logged <=> ~AllSucceeded
        /\ (task.op = "editBlock" /\ task.awaited = "rejected") =>
             /\ ~task.setData
             /\ node.data = task.before
             /\ task.logged

\* createBlock ended without a block because loadPackage failed on a document
\* with fewer than two layers.
C9_Witness ==
    /\ task.pc = "done" /\ task.op = "createBlock" /\ task.name = "collection"
    /\ task.awaited = "resolved" /\ task.data /\ task.ctor /\ task.layers < 2
    /\ task.value = NoBlock /\ task.logged /\ task.settled = "fulfilled"

----------------------------------------------------------------------------
(* C10 *)

\* C10: of two constant blocks created with block counts c1 < c2, the first
\* has the lower id in string order.
C10_ConstantIdsOrdered ==
    (/\ task.pc = "done" /\ task.value.type = "constant"
     /\ prev.type = "constant" /\ prev.count < task.value.count)
        => StringLess(prev.id, task.value.id)

====
